---- MODULE Spec2Model ----
(***************************************************************************)
(* Model of the changelog engine of dod-prohibited: changelog.py, the      *)
(* change detection and changelog update of generate_docs.py main(), the   *)
(* counts of workflow_helper.py and the cache of unii_client.py.           *)
(*                                                                         *)
(* CHANGELOG.md is kept as the list of its lines (content.split("\n")).    *)
(* A line is a record of the prefix that the code tests for (date header,  *)
(* section header, bullet, other text) and of its payload; the text of a   *)
(* name is a sequence of characters, so that strip() and rstrip(":") are   *)
(* computed.  Names hold no "*" and no line break.                         *)
(* Dates are numbered 1..NumDates in calendar order: the order of the      *)
(* numbers is the order of the ISO date strings.                           *)
(***************************************************************************)
EXTENDS Integers, Sequences, FiniteSets, TLC

VARIABLES file, last, calls

vars == <<file, last, calls>>

----------------------------------------------------------------------------
(* Bounds *)

NumDates == 2
MaxChanges == 1
MaxCalls == 2

Dates == 1..NumDates
NoDate == 0

----------------------------------------------------------------------------
(* changelog.py: ChangeType, SubstanceChange, DateChanges *)

ChangeType == {"added", "updated", "removed"}
NoSection == "none"

Names == { <<"a">>, <<"b">>, <<"a", ":">>, <<" ", "a", " ">>, <<"a", ":", " ", ":">> }

SubstanceChange(type, name, fields, source_date) ==
    [type |-> type, name |-> name, fields |-> fields, source_date |-> source_date]

EmptyDateChanges == [added |-> <<>>, updated |-> <<>>, removed |-> <<>>]

add_change(dc, change) == [dc EXCEPT ![change.type] = Append(@, change)]

has_changes(dc) == dc.added # <<>> \/ dc.updated # <<>> \/ dc.removed # <<>>

----------------------------------------------------------------------------
(* str.strip(), str.rstrip(":") on character sequences *)

RECURSIVE LStrip(_)
LStrip(s) == IF s = <<>> THEN s
             ELSE IF Head(s) = " " THEN LStrip(Tail(s)) ELSE s

RECURSIVE RStripCh(_, _)
RStripCh(s, c) == IF s = <<>> THEN s
                  ELSE IF s[Len(s)] = c THEN RStripCh(SubSeq(s, 1, Len(s) - 1), c)
                  ELSE s

Strip(s) == LStrip(RStripCh(s, " "))

----------------------------------------------------------------------------
(* Lines of CHANGELOG.md *)

NoRest == [src |-> NoDate, upd |-> FALSE, fields |-> <<>>]

MkLine(k, d, t, ind, bold, rest) ==
    [k |-> k, d |-> d, t |-> t, ind |-> ind, bold |-> bold, rest |-> rest]

TextLine(t) == MkLine("text", 0, t, 0, <<>>, NoRest)
BlankLine == MkLine("blank", 0, "", 0, <<>>, NoRest)
\* "## <date>"
DateLine(d) == MkLine("date", d, "", 0, <<>>, NoRest)
\* "### New Substances Added" | "### Substances Modified" | "### Substances Removed" | "### <other>"
SectionLine(t) == MkLine("section", 0, t, 0, <<>>, NoRest)
\* "<ind>- **<bold>**<rest>"
BulletLine(ind, bold, rest) == MkLine("bullet", 0, "", ind, bold, rest)
\* "    <n> new substance(s)" | "*<n> substance(s) modified, ...*" | "*<n> substance(s) removals, ...*"
CountLine(t, n) == MkLine("count", n, t, IF t = "added" THEN 4 ELSE 0, <<>>, NoRest)
\* ???+ info "Show details"
DetailsLine == MkLine("details", 0, "", 0, <<>>, NoRest)

IsBlank(l) == l.k = "blank"

\* the file that update_persistent_changelog creates when there is none
FreshLines == << TextLine("# Changelog"), BlankLine,
                 TextLine("All notable changes to the DoD prohibited substances list will be documented in this file."),
                 BlankLine, BlankLine >>

----------------------------------------------------------------------------
(* changelog.py: ParsedChanges, parse_existing_changelog_entries *)

\* ParsedChanges.changes_by_date as the set of its <<date, type, name>> entries;
\* a date is a key of the dict exactly when it has an entry
add_substance(parsed, date, type, name) == parsed \cup { <<date, type, name>> }

has_substance(parsed, date, type, name) == <<date, type, name>> \in parsed

ParsedDates(parsed) == { e[1] : e \in parsed }

ParsedNames(parsed, date, type) == { e[3] : e \in { x \in parsed : x[1] = date /\ x[2] = type } }

\* the name taken from a bullet: first bold span, strip, rstrip(":"), strip
BulletName(l) == Strip(RStripCh(Strip(l.bold), ":"))

\* ParseLines with a section header of no known type leaving the section as it is
RECURSIVE ParseLines_UnknownKeepsSection(_, _, _, _)
ParseLines_UnknownKeepsSection(lines, current_date, current_section, parsed) ==
    IF lines = <<>> THEN parsed
    ELSE LET l == Head(lines) IN
         IF l.k = "date"
           THEN ParseLines_UnknownKeepsSection(Tail(lines), l.d, current_section, parsed)
         ELSE IF l.k = "section"
           THEN ParseLines_UnknownKeepsSection(Tail(lines), current_date,
                           IF l.t \in ChangeType THEN l.t ELSE current_section, parsed)
         ELSE IF l.k = "bullet" /\ current_date # NoDate /\ current_section # NoSection
           THEN ParseLines_UnknownKeepsSection(Tail(lines), current_date, current_section,
                           IF Len(l.bold) > 0 /\ BulletName(l) # <<>>
                             THEN add_substance(parsed, current_date, current_section, BulletName(l))
                             ELSE parsed)
         ELSE ParseLines_UnknownKeepsSection(Tail(lines), current_date, current_section, parsed)

RECURSIVE ParseLines(_, _, _, _)
ParseLines(lines, current_date, current_section, parsed) ==
    IF lines = <<>> THEN parsed
    ELSE LET l == Head(lines) IN
         IF l.k = "date"
           THEN ParseLines(Tail(lines), l.d, current_section, parsed)
         ELSE IF l.k = "section"
           THEN ParseLines(Tail(lines), current_date,
                           IF l.t \in ChangeType THEN l.t ELSE NoSection, parsed)
         ELSE IF l.k = "bullet" /\ current_date # NoDate /\ current_section # NoSection
           THEN ParseLines(Tail(lines), current_date, current_section,
                           IF Len(l.bold) > 0 /\ BulletName(l) # <<>>
                             THEN add_substance(parsed, current_date, current_section, BulletName(l))
                             ELSE parsed)
         ELSE ParseLines(Tail(lines), current_date, current_section, parsed)

parse_existing_changelog_entries(lines) == ParseLines(lines, NoDate, NoSection, {})

----------------------------------------------------------------------------
(* Iteration order of a Python set of names: any order; one order per call *)

\* the orders in which the names of S can come
Orders(S) == { o \in [1..Cardinality(S) -> S] :
                 \A i, j \in 1..Cardinality(S) : i # j => o[i] # o[j] }

SetToSeq(S, ord) == LET RECURSIVE Pick(_)
                        Pick(i) == IF i > Len(ord) THEN <<>>
                                   ELSE (IF ord[i] \in S THEN <<ord[i]>> ELSE <<>>) \o Pick(i + 1)
                    IN  Pick(1)

----------------------------------------------------------------------------
(* changelog.py: merge_changes_for_date, generate_changelog_content_for_date,
   extract_existing_date_content *)

RECURSIVE ExistingAsChanges(_, _)
ExistingAsChanges(names, type) ==
    IF names = <<>> THEN <<>>
    ELSE <<SubstanceChange(type, Head(names), <<>>, NoDate)>> \o ExistingAsChanges(Tail(names), type)

merge_changes_for_date(date_key, existing_changes, new_changes, ord) ==
    [t \in ChangeType |->
        ExistingAsChanges(SetToSeq(ParsedNames(existing_changes, date_key, t), ord), t)
        \o new_changes[date_key][t]]

RECURSIVE AddedBullets(_, _)
AddedBullets(changes, date_key) ==
    IF changes = <<>> THEN <<>>
    ELSE LET c == Head(changes)
         IN  << BulletLine(4, c.name,
                   [NoRest EXCEPT !.src = IF c.source_date # NoDate /\ c.source_date # date_key
                                            THEN c.source_date ELSE NoDate]) >>
             \o AddedBullets(Tail(changes), date_key)

RECURSIVE UpdatedBullets(_)
UpdatedBullets(changes) ==
    IF changes = <<>> THEN <<>>
    ELSE << BulletLine(4, Head(changes).name \o <<":">>,
               [NoRest EXCEPT !.upd = TRUE, !.fields = Head(changes).fields]) >>
         \o UpdatedBullets(Tail(changes))

RECURSIVE RemovedBullets(_)
RemovedBullets(changes) ==
    IF changes = <<>> THEN <<>>
    ELSE << BulletLine(4, Head(changes).name, NoRest) >> \o RemovedBullets(Tail(changes))

\* "\n\n".join(parts), as lines
RECURSIVE JoinBlank(_)
JoinBlank(parts) == IF Len(parts) <= 1 THEN parts
                    ELSE <<Head(parts), BlankLine>> \o JoinBlank(Tail(parts))

\* str.rstrip() of a text whose lines end in no blank: drops the trailing blank lines
RECURSIVE RStripLines(_)
RStripLines(lines) == IF lines = <<>> THEN lines
                      ELSE IF IsBlank(lines[Len(lines)]) THEN RStripLines(SubSeq(lines, 1, Len(lines) - 1))
                      ELSE lines

SectionParts(t, changes, bullets) ==
    IF changes = <<>> THEN <<>>
    ELSE << SectionLine(t), BlankLine, CountLine(t, Len(changes)), BlankLine, DetailsLine, BlankLine >>
         \o bullets \o << BlankLine >>

generate_changelog_content_for_date(date_key, date_changes) ==
    RStripLines(JoinBlank(
        SectionParts("added", date_changes.added, AddedBullets(date_changes.added, date_key))
        \o SectionParts("updated", date_changes.updated, UpdatedBullets(date_changes.updated))
        \o SectionParts("removed", date_changes.removed, RemovedBullets(date_changes.removed))))

\* index of the first line that is "## <date_key>", Len+1 when there is none
RECURSIVE FindDateHeader(_, _, _)
FindDateHeader(lines, date_key, i) ==
    IF i > Len(lines) THEN i
    ELSE IF lines[i].k = "date" /\ lines[i].d = date_key THEN i
    ELSE FindDateHeader(lines, date_key, i + 1)

RECURSIVE CollectUntilDate(_, _)
CollectUntilDate(lines, i) ==
    IF i > Len(lines) THEN <<>>
    ELSE IF lines[i].k = "date" THEN <<>>
    ELSE (IF IsBlank(lines[i]) THEN <<>> ELSE <<lines[i]>>) \o CollectUntilDate(lines, i + 1)

extract_existing_date_content(lines, date_key) ==
    CollectUntilDate(lines, FindDateHeader(lines, date_key, 1) + 1)

----------------------------------------------------------------------------
(* changelog.py: update_persistent_changelog *)

\* CHANGELOG.md: absent, or its lines
NoFile == [exists |-> FALSE, lines |-> <<>>]
FileOf(lines) == [exists |-> TRUE, lines |-> lines]

\* GroupChanges with the source date of an Added change left unread
RECURSIVE GroupChanges_NoSourceDate(_, _, _, _, _)
GroupChanges_NoSourceDate(changes, existing_changes, today, changes_by_date, computed_changes) ==
    IF changes = <<>>
      THEN [changes_by_date |-> changes_by_date, computed_changes |-> computed_changes]
    ELSE LET change == Head(changes) IN
      IF change.type \in {"removed", "updated"}
        THEN GroupChanges_NoSourceDate(Tail(changes), existing_changes, today, changes_by_date,
                                       Append(computed_changes, change))
      ELSE GroupChanges_NoSourceDate(Tail(changes), existing_changes, today,
                 IF has_substance(existing_changes, today, change.type, change.name)
                   THEN changes_by_date
                   ELSE [changes_by_date EXCEPT ![today] = add_change(@, change)],
                 computed_changes)

\* the loop over changes_detected: files each change under its date, or queues it
RECURSIVE GroupChanges(_, _, _, _, _)
GroupChanges(changes, existing_changes, today, changes_by_date, computed_changes) ==
    IF changes = <<>>
      THEN [changes_by_date |-> changes_by_date, computed_changes |-> computed_changes]
    ELSE LET change == Head(changes) IN
      IF change.type = "added" /\ change.source_date # NoDate
        THEN GroupChanges(Tail(changes), existing_changes, today,
                 IF has_substance(existing_changes, change.source_date, "added", change.name)
                   THEN changes_by_date
                   ELSE [changes_by_date EXCEPT ![change.source_date] = add_change(@, change)],
                 computed_changes)
      ELSE IF change.type \in {"removed", "updated"}
        THEN GroupChanges(Tail(changes), existing_changes, today, changes_by_date,
                          Append(computed_changes, change))
      ELSE GroupChanges(Tail(changes), existing_changes, today,
                 IF has_substance(existing_changes, today, change.type, change.name)
                   THEN changes_by_date
                   ELSE [changes_by_date EXCEPT ![today] = add_change(@, change)],
                 computed_changes)

\* the loop over computed_changes
RECURSIVE AddComputed(_, _, _, _)
AddComputed(computed_changes, existing_changes, detection_date, changes_by_date) ==
    IF computed_changes = <<>> THEN changes_by_date
    ELSE LET change == Head(computed_changes) IN
      AddComputed(Tail(computed_changes), existing_changes, detection_date,
          IF has_substance(existing_changes, detection_date, change.type, change.name)
            THEN changes_by_date
            ELSE [changes_by_date EXCEPT ![detection_date] = add_change(@, change)])

\* changes_by_date before the empty dates are dropped; a date that is no key holds no change
NewChangesByDate(existing_changes, changes, today, detection_date) ==
    LET g == GroupChanges(changes, existing_changes, today,
                          [d \in Dates |-> EmptyDateChanges], <<>>)
    IN  AddComputed(g.computed_changes, existing_changes,
                    IF detection_date # NoDate THEN detection_date ELSE today,
                    g.changes_by_date)

\* the keys of changes_by_date once the dates with no new change are dropped
DatesWithChanges(changes_by_date) == { d \in Dates : has_changes(changes_by_date[d]) }

\* the lines before the first date header
RECURSIVE CopyHeader(_)
CopyHeader(lines) == IF lines = <<>> THEN <<>>
                     ELSE IF Head(lines).k = "date" THEN <<>>
                     ELSE <<Head(lines)>> \o CopyHeader(Tail(lines))

\* sorted(all_dates) without reverse
RECURSIVE SortedReverse_Ascending(_)
SortedReverse_Ascending(S) == IF S = {} THEN <<>>
                              ELSE LET m == CHOOSE x \in S : \A y \in S : x <= y
                                   IN  <<m>> \o SortedReverse_Ascending(S \ {m})

\* sorted(all_dates, reverse=True)
RECURSIVE SortedReverse(_)
SortedReverse(S) == IF S = {} THEN <<>>
                    ELSE LET m == CHOOSE x \in S : \A y \in S : y <= x
                         IN  <<m>> \o SortedReverse(S \ {m})

RECURSIVE NonBlank(_)
NonBlank(lines) == IF lines = <<>> THEN <<>>
                   ELSE (IF IsBlank(Head(lines)) THEN <<>> ELSE <<Head(lines)>>) \o NonBlank(Tail(lines))

\* one pass of the loop over sorted_dates
DateSection(date_key, lines, existing_changes, changes_by_date, ord) ==
    LET date_content ==
          IF has_changes(changes_by_date[date_key])
            THEN generate_changelog_content_for_date(date_key,
                     merge_changes_for_date(date_key, existing_changes, changes_by_date, ord))
            ELSE extract_existing_date_content(lines, date_key)
    IN  <<DateLine(date_key), BlankLine>>
        \o (IF NonBlank(date_content) # <<>> THEN NonBlank(date_content) \o <<BlankLine>> ELSE <<>>)

RECURSIVE DateSections(_, _, _, _, _)
DateSections(sorted_dates, lines, existing_changes, changes_by_date, ord) ==
    IF sorted_dates = <<>> THEN <<>>
    ELSE DateSection(Head(sorted_dates), lines, existing_changes, changes_by_date, ord)
         \o DateSections(Tail(sorted_dates), lines, existing_changes, changes_by_date, ord)

\* the file after update_persistent_changelog(changes_detected, today, detection_date)
update_persistent_changelog(f, changes_detected, today, detection_date, ord) ==
    LET lines == IF f.exists THEN f.lines ELSE FreshLines
        existing_changes == parse_existing_changelog_entries(lines)
        changes_by_date == NewChangesByDate(existing_changes, changes_detected, today, detection_date)
        all_dates == DatesWithChanges(changes_by_date) \cup ParsedDates(existing_changes)
    IN  IF DatesWithChanges(changes_by_date) = {}
          THEN FileOf(lines)
          ELSE FileOf(CopyHeader(lines)
                      \o DateSections(SortedReverse(all_dates), lines, existing_changes,
                                      changes_by_date, ord))

\* the modes in which update_persistent_changelog opens CHANGELOG.md, in order: "w" to
\* create a missing file, "r" to read it, "w" to write the new document
FileOpens(f, changes_detected, today, detection_date) ==
    LET lines == IF f.exists THEN f.lines ELSE FreshLines
        changes_by_date == NewChangesByDate(parse_existing_changelog_entries(lines),
                                            changes_detected, today, detection_date)
    IN  (IF f.exists THEN <<>> ELSE <<"w">>)
        \o <<"r">>
        \o (IF DatesWithChanges(changes_by_date) = {} THEN <<>> ELSE <<"w">>)

----------------------------------------------------------------------------
(* The calls *)

\* the orders in which the sets of names parsed from a file can be iterated
SetOrders(f) ==
    Orders({ e[3] : e \in parse_existing_changelog_entries(IF f.exists THEN f.lines ELSE FreshLines) })

Fields(type) == IF type = "updated" THEN <<"Reason">> ELSE <<>>

\* the changes a caller passes
ChangePool == { SubstanceChange(t, n, Fields(t), s) :
                  t \in ChangeType, n \in Names, s \in Dates \cup {NoDate} }

ChangeLists == UNION { [1..n -> ChangePool] : n \in 0..MaxChanges }

NoCall == [op |-> "none", changes |-> <<>>, today |-> NoDate, detection_date |-> NoDate,
           before |-> NoFile]

Init == /\ file = NoFile
        /\ last = NoCall
        /\ calls = 0

UpdateChangelog ==
    /\ calls < MaxCalls
    /\ \E changes \in ChangeLists, today \in Dates, detection_date \in Dates \cup {NoDate},
          ord \in SetOrders(file) :
         /\ file' = update_persistent_changelog(file, changes, today, detection_date, ord)
         /\ last' = [op |-> "update", changes |-> changes, today |-> today,
                     detection_date |-> detection_date, before |-> file]
    /\ calls' = calls + 1

Next == UpdateChangelog

Spec == Init /\ [][Next]_vars

----------------------------------------------------------------------------
(* The write of update_persistent_changelog when it fails: open(changelog_file, "w")
   raises and the file stays as it was read, or it has truncated the file and
   f.write or the flush at close raises after part of the text reached the file;
   the text is modelled line by line. The exception ends the run: no call is
   followed after it *)

\* the contents the file can hold after a failed write of new_content_lines
FailedWriteOutcomes(read_lines, new_content_lines) ==
    {read_lines} \cup { SubSeq(new_content_lines, 1, n) : n \in 0..(Len(new_content_lines) - 1) }

UpdateChangelogWriteFails ==
    /\ calls < MaxCalls
    /\ \E changes \in ChangeLists, today \in Dates, detection_date \in Dates \cup {NoDate},
          ord \in SetOrders(file) :
         LET new == update_persistent_changelog(file, changes, today, detection_date, ord)
             read_lines == IF file.exists THEN file.lines ELSE FreshLines
         IN  /\ new # FileOf(read_lines)
             /\ \E written \in FailedWriteOutcomes(read_lines, new.lines) :
                   file' = FileOf(written)
             /\ last' = [op |-> "write failed", changes |-> changes, today |-> today,
                         detection_date |-> detection_date, before |-> file]
    /\ calls' = MaxCalls

NextWrite == UpdateChangelog \/ UpdateChangelogWriteFails

SpecWrite == Init /\ [][NextWrite]_vars

----------------------------------------------------------------------------
(* A caller that passes the same change twice in one list: main appends one change
   per row of the current data, so two rows of one substance give two equal
   changes. The call is the last one that is followed *)

UpdateChangelogTwice ==
    /\ calls < MaxCalls
    /\ \E c \in ChangePool, today \in Dates, detection_date \in Dates \cup {NoDate},
          ord \in SetOrders(file) :
         /\ file' = update_persistent_changelog(file, <<c, c>>, today, detection_date, ord)
         /\ last' = [op |-> "update", changes |-> <<c, c>>, today |-> today,
                     detection_date |-> detection_date, before |-> file]
    /\ calls' = MaxCalls

NextTwice == UpdateChangelog \/ UpdateChangelogTwice

SpecTwice == Init /\ [][NextTwice]_vars

----------------------------------------------------------------------------
(* A changelog that was not written by this module: date blocks put together by
   hand or by an earlier generator, each a date header, an optional section
   header and an optional bullet *)

MaxBlocks == 2

BlockSections == {"added", "removed", "other", "nosec"}
BlockNames == { <<"a">>, <<"b">>, <<>> }

Block(d, sec, name) ==
    <<DateLine(d), BlankLine>>
    \o (IF sec = "nosec" THEN <<>> ELSE <<SectionLine(sec), BlankLine>>)
    \o (IF name = <<>> THEN <<>> ELSE <<BulletLine(0, name, NoRest), BlankLine>>)

Blocks == { Block(d, sec, name) : d \in Dates, sec \in BlockSections, name \in BlockNames }

RECURSIVE Flatten(_)
Flatten(ss) == IF ss = <<>> THEN <<>> ELSE Head(ss) \o Flatten(Tail(ss))

HandDocs == { FileOf(SubSeq(FreshLines, 1, 4) \o Flatten(bs)) :
                bs \in UNION { [1..n -> Blocks] : n \in 0..MaxBlocks } }

InitDoc == /\ file \in HandDocs
           /\ last = NoCall
           /\ calls = MaxCalls - 1

SpecDoc == InitDoc /\ [][Next]_vars

----------------------------------------------------------------------------
(* Values of the records: None, a str (the sequence of its characters; the text
   of an 'updated' field is the sequence of its JSON tokens), an int *)

PyNone == [ty |-> "none", s |-> <<>>, n |-> 0]
PyStr(s) == [ty |-> "str", s |-> s, n |-> 0]
PyInt(n) == [ty |-> "int", s |-> <<>>, n |-> n]

\* bool(v)
Truthy(v) == (v.ty = "str" /\ v.s # <<>>) \/ (v.ty = "int" /\ v.n # 0)

\* a or b
PyOr(a, b) == IF Truthy(a) THEN a ELSE b

\* str(v)
Str(v) == IF v.ty = "none" THEN <<"None">>
          ELSE IF v.ty = "str" THEN v.s
          ELSE <<ToString(v.n)>>

\* the characters of the model in code point order
CharOrder == <<" ", ":", "[", "]", "a", "b", "l", "n", "u", "x">>

Rank(ch) == IF \E i \in 1..Len(CharOrder) : CharOrder[i] = ch
              THEN CHOOSE i \in 1..Len(CharOrder) : CharOrder[i] = ch
              ELSE Len(CharOrder) + 1

\* s < t of two str
RECURSIVE StrLess(_, _)
StrLess(s, t) == IF t = <<>> THEN FALSE
                 ELSE IF s = <<>> THEN TRUE
                 ELSE IF Head(s) = Head(t) THEN StrLess(Tail(s), Tail(t))
                 ELSE Rank(Head(s)) < Rank(Head(t))

\* a > b: "true", "false", or "TypeError" when Python does not order the two types
PyGt(a, b) ==
    IF a.ty = "int" /\ b.ty = "int" THEN (IF a.n > b.n THEN "true" ELSE "false")
    ELSE IF a.ty = "str" /\ b.ty = "str" THEN (IF StrLess(b.s, a.s) THEN "true" ELSE "false")
    ELSE "TypeError"

\* dict.get(col): the value, None when the record has no such column
Get(row, col) == IF col \in DOMAIN row THEN row[col] ELSE PyNone

\* dict.get(col, default)
GetDefault(row, col, default) == IF col \in DOMAIN row THEN row[col] ELSE default

----------------------------------------------------------------------------
(* json.loads on the text of an 'updated' field.  The tokens: "{", "}", "[", "]",
   ":", a key ("key:_seconds", "key:other"), a number ("num:100"), a string
   ("str:x"), "null"; anything else is no JSON *)

JsonKeys == {"key:_seconds", "key:other"}
JsonValues == {"null", "num:100", "num:200", "str:x"}

JsonValue(tok) == IF tok = "num:100" THEN PyInt(100)
                  ELSE IF tok = "num:200" THEN PyInt(200)
                  ELSE IF tok = "str:x" THEN PyStr(<<"x">>)
                  ELSE PyNone

\* {"_seconds": <v>}
JsonSeconds(v) == <<"{", "key:_seconds", ":", v, "}">>

\* the parsed text: a dict (with or without '_seconds'), another value, or JSONDecodeError
json_loads(s) ==
    LET t == Strip(s) IN
    IF t = <<"{", "}">> THEN [kind |-> "dict", has |-> FALSE, val |-> PyNone]
    ELSE IF Len(t) = 5 /\ t[1] = "{" /\ t[2] \in JsonKeys /\ t[3] = ":"
            /\ t[4] \in JsonValues /\ t[5] = "}"
      THEN [kind |-> "dict", has |-> (t[2] = "key:_seconds"), val |-> JsonValue(t[4])]
    ELSE IF t = <<"[", "]">> \/ (Len(t) = 1 /\ t[1] \in JsonValues)
      THEN [kind |-> "other", has |-> FALSE, val |-> PyNone]
    ELSE [kind |-> "error", has |-> FALSE, val |-> PyNone]

----------------------------------------------------------------------------
(* changelog.py: get_substance_last_modified, has_substance_been_modified_since *)

get_substance_last_modified(substance_data) ==
    LET updated_field == GetDefault(substance_data, "updated", PyStr(<<>>)) IN
    IF updated_field.ty = "str" /\ Strip(updated_field.s) # <<>>
      THEN LET updated_json == json_loads(updated_field.s) IN
           IF updated_json.kind = "dict" /\ updated_json.has
             THEN updated_json.val
             ELSE PyInt(0)
      ELSE PyInt(0)

\* "true", "false" or "TypeError"
has_substance_been_modified_since(substance_data, timestamp_threshold) ==
    PyGt(get_substance_last_modified(substance_data), PyInt(timestamp_threshold))

----------------------------------------------------------------------------
(* generate_docs.py: get_substance_last_modified, has_substance_been_modified_since,
   get_substance_source_date *)

gd_get_substance_last_modified(substance_data) ==
    LET updated_field == GetDefault(substance_data, "updated", PyStr(<<>>)) IN
    IF updated_field.ty # "str" \/ Strip(updated_field.s) = <<>> THEN PyInt(0)
    ELSE LET updated_json == json_loads(updated_field.s) IN
         IF updated_json.kind = "error" THEN PyInt(0)
         ELSE IF updated_json.kind = "dict" /\ updated_json.has THEN updated_json.val
         ELSE PyInt(0)

gd_has_substance_been_modified_since(substance_data, timestamp_threshold) ==
    PyGt(gd_get_substance_last_modified(substance_data), PyInt(timestamp_threshold))

\* datetime.fromtimestamp(t).strftime("%Y-%m-%d"): a day of the model lasts 100 seconds
DateOfTimestamp(t) == t \div 100

\* the source date of a record, NoDate for None; the records of the model carry none
\* of the columns date_added, created, modified_date, last_updated
gd_get_substance_source_date(substance_data) ==
    LET timestamp == gd_get_substance_last_modified(substance_data)
    IN  IF PyGt(timestamp, PyInt(0)) = "true" THEN DateOfTimestamp(timestamp.n)
        ELSE NoDate

----------------------------------------------------------------------------
(* generate_docs.py: the substance key, load_previous_data_from_git *)

Columns == <<"Name", "Reason", "updated">>

MeaningfulCols == <<"Name", "searchable_name", "Reason", "guid">>

\* "|".join(parts)
RECURSIVE JoinBar(_)
JoinBar(parts) == IF parts = <<>> THEN <<>>
                  ELSE IF Len(parts) = 1 THEN Head(parts)
                  ELSE Head(parts) \o <<"|">> \o JoinBar(Tail(parts))

\* the values of a record, in column order, as str
RECURSIVE ValuesOf(_, _)
ValuesOf(item, cols) == IF cols = <<>> THEN <<>>
                        ELSE <<item[Head(cols)]>> \o ValuesOf(item, Tail(cols))

FirstN(s, n) == SubSeq(s, 1, IF Len(s) < n THEN Len(s) ELSE n)

\* the key of a record: guid, then Name, then searchable_name, then the first two
\* meaningful columns, then the first three non-empty values, then last_resort
SubstanceKey(item, last_resort) ==
    LET guid == PyOr(Get(item, "guid"), Get(item, "Guid"))
        available_cols == SelectSeq(MeaningfulCols,
                              LAMBDA col : col \in DOMAIN item /\ Strip(Str(item[col])) # <<>>)
        non_empty_vals == SelectSeq(ValuesOf(item, SelectSeq(Columns, LAMBDA c : c \in DOMAIN item)),
                              LAMBDA val : Truthy(val) /\ Strip(Str(val)) # <<>>
                                           /\ Str(val) \notin { <<"[", "]">>, <<"{", "}">>, <<"n", "a", "n">> })
        strs(vs) == [i \in 1..Len(vs) |-> Str(vs[i])]
    IN  IF Truthy(guid) /\ Strip(Str(guid)) # <<>> THEN <<"guid:">> \o Str(guid)
        ELSE IF Truthy(Get(item, "Name")) /\ Strip(Str(Get(item, "Name"))) # <<>>
          THEN <<"name:">> \o Str(Get(item, "Name"))
        ELSE IF Truthy(Get(item, "searchable_name")) /\ Strip(Str(Get(item, "searchable_name"))) # <<>>
          THEN <<"search:">> \o Str(Get(item, "searchable_name"))
        ELSE IF available_cols # <<>>
          THEN JoinBar([i \in 1..Len(FirstN(available_cols, 2)) |-> Str(item[available_cols[i]])])
        ELSE IF non_empty_vals # <<>> THEN JoinBar(strs(FirstN(non_empty_vals, 3)))
        ELSE last_resort

\* d[k] = v
DictPut(d, k, v) == [x \in DOMAIN d \cup {k} |-> IF x = k THEN v ELSE d[x]]

EmptyDict == [x \in {} |-> PyNone]

RECURSIVE PreviousDict(_, _)
PreviousDict(data, previous_dict) ==
    IF data = <<>> THEN previous_dict
    ELSE PreviousDict(Tail(data),
                      DictPut(previous_dict, SubstanceKey(Head(data), <<"hash">>), Head(data)))

\* what "git show HEAD~1:docs/data.json" gives: a list of records, or no list because
\* the command fails, git is missing, or the content is no JSON
GitFailures == {"returncode", "FileNotFoundError", "JSONDecodeError"}

GitShow(outcome, data) == [outcome |-> outcome, data |-> data]

\* (previous_dict, previous_count), or None
NoPrevious == [known |-> FALSE, dict |-> EmptyDict, count |-> 0]

\* load_previous_data_from_git with a failed load taken for an empty snapshot
load_previous_data_from_git_EmptyOnFailure(git) ==
    [known |-> TRUE, dict |-> PreviousDict(git.data, EmptyDict), count |-> Len(git.data)]

load_previous_data_from_git(git) ==
    IF git.outcome = "ok"
      THEN [known |-> TRUE, dict |-> PreviousDict(git.data, EmptyDict), count |-> Len(git.data)]
      ELSE NoPrevious

----------------------------------------------------------------------------
(* generate_docs.py main(): the comparison of one record with its previous version *)

IgnoreFields == {"added", "updated", "guid", "More_info_URL", "SourceOf"}

\* ast.literal_eval on the texts of the model: "[]", "{}" and "None" are literals,
\* any other text raises
LiteralNone == [ok |-> TRUE, v |-> "None"]

literal_eval(s) == IF s = <<"[", "]">> THEN [ok |-> TRUE, v |-> "[]"]
                   ELSE IF s = <<"{", "}">> THEN [ok |-> TRUE, v |-> "{}"]
                   ELSE IF s = <<"N", "o", "n", "e">> THEN LiteralNone
                   ELSE [ok |-> FALSE, v |-> ""]

\* the column is listed in changed_fields
FieldChanged(current_val, prev_val) ==
    IF current_val = prev_val THEN FALSE
    ELSE IF current_val.ty = "str" /\ prev_val.ty = "str"
      THEN LET curr_parsed == IF Truthy(current_val) THEN literal_eval(current_val.s) ELSE LiteralNone
               prev_parsed == IF Truthy(prev_val) THEN literal_eval(prev_val.s) ELSE LiteralNone
           IN  IF curr_parsed.ok /\ prev_parsed.ok THEN curr_parsed.v # prev_parsed.v
               ELSE TRUE
    ELSE TRUE

\* ChangedFields with the ignored columns compared as well
ChangedFields_IgnoreNothing(current_row_dict, prev_substance) ==
    SelectSeq(Columns, LAMBDA col : FieldChanged(Get(current_row_dict, col), Get(prev_substance, col)))

ChangedFields(current_row_dict, prev_substance) ==
    SelectSeq(Columns, LAMBDA col : col \notin IgnoreFields
                                     /\ FieldChanged(Get(current_row_dict, col), Get(prev_substance, col)))

\* a change of main(): a SubstanceChange with its key
MainChange(type, key, name, fields, source_date) ==
    [type |-> type, name |-> name, fields |-> fields, source_date |-> source_date, key |-> key]

\* row.get('Name') or row.get('ingredient') or row.get('name') or substance_key
SubstanceName(row, substance_key) ==
    LET n == PyOr(Get(row, "Name"), PyOr(Get(row, "ingredient"), Get(row, "name")))
    IN  IF Truthy(n) THEN Str(n) ELSE substance_key

\* the unique index on the data columns rejects a row equal to an earlier one; a NULL
\* makes a row differ from every other
RejectedInsert(rows, i) ==
    \E j \in 1..(i - 1) : rows[j] = rows[i] /\ \A col \in DOMAIN rows[i] : rows[i][col] # PyNone

\* the loop over the rows: the Added and Updated changes and the keys seen, or the
\* exception that ends the run
RECURSIVE DetectRows(_, _, _, _)
DetectRows(rows, i, previous, acc) ==
    IF i > Len(rows) THEN acc
    ELSE LET row == rows[i]
             substance_key == SubstanceKey(row, <<"row_", ToString(i - 1)>>)
             substance_name == SubstanceName(row, substance_key)
             seen == [acc EXCEPT !.current_keys = @ \cup {substance_key}]
         IN  IF RejectedInsert(rows, i) THEN [acc EXCEPT !.error = "IntegrityError"]
             ELSE IF ~previous.known THEN DetectRows(rows, i + 1, previous, seen)
             ELSE IF substance_key \notin DOMAIN previous.dict
               THEN DetectRows(rows, i + 1, previous,
                        [seen EXCEPT !.changes = Append(@,
                            MainChange("added", substance_key, substance_name, <<>>,
                                       gd_get_substance_source_date(row)))])
             ELSE LET prev_substance == previous.dict[substance_key]
                      current_timestamp == gd_get_substance_last_modified(row)
                      prev_timestamp == gd_get_substance_last_modified(prev_substance)
                      modified == PyGt(current_timestamp, prev_timestamp)
                      changed_fields == ChangedFields(row, prev_substance)
                  IN  IF modified = "TypeError" THEN [acc EXCEPT !.error = "TypeError"]
                      ELSE IF modified = "true" /\ changed_fields # <<>>
                        THEN DetectRows(rows, i + 1, previous,
                                 [seen EXCEPT !.changes = Append(@,
                                     MainChange("updated", substance_key, substance_name,
                                                changed_fields, NoDate))])
                      ELSE DetectRows(rows, i + 1, previous, seen)

\* the Removed changes, in the order the set of removed keys is iterated
RECURSIVE RemovedChanges(_, _)
RemovedChanges(removed_keys, previous_dict) ==
    IF removed_keys = <<>> THEN <<>>
    ELSE <<MainChange("removed", Head(removed_keys),
                      SubstanceName(previous_dict[Head(removed_keys)], Head(removed_keys)),
                      <<>>, NoDate)>>
         \o RemovedChanges(Tail(removed_keys), previous_dict)

\* the changes kept for the changelog
RECURSIVE MeaningfulChanges(_)
MeaningfulChanges(changes) ==
    IF changes = <<>> THEN <<>>
    ELSE LET change == Head(changes)
             meaningful_fields == SelectSeq(change.fields, LAMBDA f : f \notin IgnoreFields)
         IN  (IF change.type \in {"added", "removed"} THEN <<change>>
              ELSE IF meaningful_fields # <<>> THEN <<[change EXCEPT !.fields = meaningful_fields]>>
              ELSE <<>>)
             \o MeaningfulChanges(Tail(changes))

----------------------------------------------------------------------------
(* generate_docs.py: parse_existing_changelog_entries, merge_changes_for_date,
   generate_changelog_content_for_date, find_insert_position *)

\* existing_changes: the dates that are keys of the dict, and the <<date, type, name>>
\* entries of its sets
RECURSIVE gd_ParseLines(_, _, _, _)
gd_ParseLines(lines, current_date, current_section, existing_changes) ==
    IF lines = <<>> THEN existing_changes
    ELSE LET l == Head(lines) IN
         IF l.k = "date"
           THEN gd_ParseLines(Tail(lines), l.d, current_section,
                              [existing_changes EXCEPT !.dates = @ \cup {l.d}])
         ELSE IF l.k = "section"
           THEN gd_ParseLines(Tail(lines), current_date,
                              IF l.t \in ChangeType THEN l.t ELSE NoSection, existing_changes)
         ELSE IF l.k = "bullet" /\ current_date # NoDate /\ current_section # NoSection
           THEN gd_ParseLines(Tail(lines), current_date, current_section,
                              IF Len(l.bold) > 0 /\ BulletName(l) # <<>>
                                THEN [existing_changes EXCEPT !.entries =
                                        add_substance(@, current_date, current_section, BulletName(l))]
                                ELSE existing_changes)
         ELSE gd_ParseLines(Tail(lines), current_date, current_section, existing_changes)

gd_parse_existing_changelog_entries(lines) ==
    gd_ParseLines(lines, NoDate, NoSection, [dates |-> {}, entries |-> {}])

gd_merge_changes_for_date(date_key, existing_changes, new_changes, ord) ==
    [t \in ChangeType |->
        ExistingAsChanges(SetToSeq(ParsedNames(existing_changes.entries, date_key, t), ord), t)
        \o new_changes[date_key][t]]

RECURSIVE gd_AddedBullets(_, _)
gd_AddedBullets(changes, date_key) ==
    IF changes = <<>> THEN <<>>
    ELSE LET c == Head(changes)
         IN  << BulletLine(0, c.name,
                   [NoRest EXCEPT !.src = IF c.source_date # NoDate /\ c.source_date # date_key
                                            THEN c.source_date ELSE NoDate]) >>
             \o gd_AddedBullets(Tail(changes), date_key)

RECURSIVE gd_UpdatedBullets(_)
gd_UpdatedBullets(changes) ==
    IF changes = <<>> THEN <<>>
    ELSE << BulletLine(0, Head(changes).name \o <<":">>,
               [NoRest EXCEPT !.upd = TRUE, !.fields = Head(changes).fields]) >>
         \o gd_UpdatedBullets(Tail(changes))

RECURSIVE gd_RemovedBullets(_)
gd_RemovedBullets(changes) ==
    IF changes = <<>> THEN <<>>
    ELSE << BulletLine(0, Head(changes).name, NoRest) >> \o gd_RemovedBullets(Tail(changes))

gd_generate_changelog_content_for_date(date_key, date_changes) ==
    RStripLines(
        (IF date_changes.added # <<>>
           THEN <<SectionLine("added"), BlankLine>>
                \o gd_AddedBullets(date_changes.added, date_key) \o <<BlankLine>>
           ELSE <<>>)
        \o (IF date_changes.updated # <<>>
              THEN <<SectionLine("updated"), BlankLine,
                     TextLine("*Changes detected through data comparison*"), BlankLine>>
                   \o gd_UpdatedBullets(date_changes.updated) \o <<BlankLine>>
              ELSE <<>>)
        \o (IF date_changes.removed # <<>>
              THEN <<SectionLine("removed"), BlankLine,
                     TextLine("*Removals detected through data comparison*"), BlankLine>>
                   \o gd_RemovedBullets(date_changes.removed) \o <<BlankLine>>
              ELSE <<>>))

\* the number of lines before the place of a new date: before the first date header
\* that is older, else at the end
RECURSIVE gd_FindOlder(_, _, _)
gd_FindOlder(lines, new_date, pos) ==
    IF pos > Len(lines) THEN Len(lines)
    ELSE IF lines[pos].k = "date" /\ lines[pos].d < new_date THEN pos - 1
    ELSE gd_FindOlder(lines, new_date, pos + 1)

gd_find_insert_position(lines, new_date) == gd_FindOlder(lines, new_date, 1)

----------------------------------------------------------------------------
(* generate_docs.py: update_persistent_changelog *)

\* the line starts with "#"
StartsWithHash(l) == l.k \in {"date", "section"} \/ (l.k = "text" /\ l.t = "# Changelog")

\* the header loop stops on this line
EndsHeader(l) == l.k = "date" \/ (~IsBlank(l) /\ ~StartsWithHash(l))

\* the index the header loop stops at, Len + 1 when it runs off the end
RECURSIVE gd_HeaderEnd(_, _)
gd_HeaderEnd(lines, i) == IF i > Len(lines) THEN i
                          ELSE IF EndsHeader(lines[i]) THEN i
                          ELSE gd_HeaderEnd(lines, i + 1)

\* the index of the next date header from i on, Len + 1 when there is none
RECURSIVE gd_SkipToDate(_, _)
gd_SkipToDate(lines, i) == IF i > Len(lines) THEN i
                           ELSE IF lines[i].k = "date" THEN i
                           ELSE gd_SkipToDate(lines, i + 1)

\* the loop over the existing content: copies it, and regenerates the first block of
\* each date that has new changes
RECURSIVE gd_CopyContent(_, _, _, _, _, _)
gd_CopyContent(lines, i, existing_changes, changes_by_date, dates_processed, ord) ==
    IF i > Len(lines) THEN [new_lines |-> <<>>, dates_processed |-> dates_processed]
    ELSE LET line == lines[i] IN
         IF line.k = "date" /\ has_changes(changes_by_date[line.d]) /\ line.d \notin dates_processed
           THEN LET rest == gd_CopyContent(lines, gd_SkipToDate(lines, i + 1), existing_changes,
                                           changes_by_date, dates_processed \cup {line.d}, ord)
                IN  [rest EXCEPT !.new_lines =
                        <<line>>
                        \o gd_generate_changelog_content_for_date(line.d,
                               gd_merge_changes_for_date(line.d, existing_changes, changes_by_date, ord))
                        \o <<BlankLine>> \o @]
           ELSE LET rest == gd_CopyContent(lines, i + 1, existing_changes, changes_by_date,
                                           dates_processed, ord)
                IN  [rest EXCEPT !.new_lines = <<line>> \o @]

\* the loop over the dates that the existing content does not hold
RECURSIVE gd_InsertNewDates(_, _, _)
gd_InsertNewDates(new_lines, date_keys, changes_by_date) ==
    IF date_keys = <<>> THEN new_lines
    ELSE LET date_key == Head(date_keys)
             insert_position == gd_find_insert_position(new_lines, date_key)
             content_lines == <<DateLine(date_key), BlankLine>>
                              \o gd_generate_changelog_content_for_date(date_key, changes_by_date[date_key])
                              \o <<BlankLine>>
         IN  gd_InsertNewDates(SubSeq(new_lines, 1, insert_position) \o content_lines
                                 \o SubSeq(new_lines, insert_position + 1, Len(new_lines)),
                               Tail(date_keys), changes_by_date)

\* the file after update_persistent_changelog(changes_detected, today, detection_date)
gd_update_persistent_changelog(f, changes_detected, today, detection_date, ord) ==
    LET lines == IF f.exists THEN f.lines ELSE FreshLines
        existing_changes == gd_parse_existing_changelog_entries(lines)
        changes_by_date == NewChangesByDate(existing_changes.entries, changes_detected,
                                            today, detection_date)
        i == gd_HeaderEnd(lines, 1)
        copied == gd_CopyContent(lines, i, existing_changes, changes_by_date, {}, ord)
        new_dates == DatesWithChanges(changes_by_date) \ copied.dates_processed
    IN  IF DatesWithChanges(changes_by_date) = {}
          THEN FileOf(lines)
          ELSE FileOf(gd_InsertNewDates(
                          SubSeq(lines, 1, IF i > Len(lines) THEN Len(lines) ELSE i) \o copied.new_lines,
                          SortedReverse(new_dates), changes_by_date))

----------------------------------------------------------------------------
(* generate_docs.py: main().  The database and the generated pages are left out:
   of the database only the unique index is kept, which can end the run. *)

NoError == "none"

\* main with every previous key taken for removed
main_RemovedAllPrevious(f, rows, git, today, removed_order, ord) ==
    LET previous == load_previous_data_from_git(git)
        detected == DetectRows(rows, 1, previous,
                               [changes |-> <<>>, current_keys |-> {}, error |-> NoError])
        removed_keys == IF previous.known
                          THEN SetToSeq(DOMAIN previous.dict, removed_order)
                          ELSE <<>>
        changes_detected == detected.changes \o RemovedChanges(removed_keys, previous.dict)
        meaningful_changes == MeaningfulChanges(changes_detected)
    IN  IF detected.error # NoError
          THEN [file |-> f, changes |-> <<>>, error |-> detected.error]
          ELSE [file |-> IF meaningful_changes # <<>>
                           THEN gd_update_persistent_changelog(f, meaningful_changes, today, today, ord)
                           ELSE f,
                changes |-> changes_detected,
                error |-> NoError]

\* the file, the changes detected and the exception, if any, of one run
main(f, rows, git, today, removed_order, ord) ==
    LET previous == load_previous_data_from_git(git)
        detected == DetectRows(rows, 1, previous,
                               [changes |-> <<>>, current_keys |-> {}, error |-> NoError])
        removed_keys == IF previous.known
                          THEN SetToSeq(DOMAIN previous.dict \ detected.current_keys, removed_order)
                          ELSE <<>>
        changes_detected == detected.changes \o RemovedChanges(removed_keys, previous.dict)
        meaningful_changes == MeaningfulChanges(changes_detected)
    IN  IF detected.error # NoError
          THEN [file |-> f, changes |-> <<>>, error |-> detected.error]
          ELSE [file |-> IF meaningful_changes # <<>>
                           THEN gd_update_persistent_changelog(f, meaningful_changes, today, today, ord)
                           ELSE f,
                changes |-> changes_detected,
                error |-> NoError]

----------------------------------------------------------------------------
(* The runs of main() *)

MaxRows == 1

RowNames == { <<"a">>, <<"b">> }

\* None, "", "[]", "null", "x"
Reasons == { PyNone, PyStr(<<>>), PyStr(<<"[", "]">>), PyStr(<<"n", "u", "l", "l">>), PyStr(<<"x">>) }

\* None (no value), "", a text that is no JSON, an object without "_seconds", an
\* object whose "_seconds" is a string, and two timestamps
UpdatedValues == { PyNone, PyStr(<<>>), PyStr(<<"x">>),
                   PyStr(<<"{", "key:other", ":", "num:100", "}">>),
                   PyStr(JsonSeconds("str:x")),
                   PyStr(JsonSeconds("num:100")), PyStr(JsonSeconds("num:200")) }

Records == { [Name |-> PyStr(n), Reason |-> r, updated |-> u] :
               n \in RowNames, r \in Reasons, u \in UpdatedValues }

RowLists == UNION { [1..n -> Records] : n \in 0..MaxRows }

GitResults == { GitShow(o, <<>>) : o \in GitFailures } \cup { GitShow("ok", d) : d \in RowLists }

\* the orders in which the sets of names parsed from a file can be iterated
gd_SetOrders(f) ==
    Orders({ e[3] : e \in gd_parse_existing_changelog_entries(
                              IF f.exists THEN f.lines ELSE FreshLines).entries })

\* the changes of an earlier run
EarlierChanges ==
    { MainChange("added", <<"name:", "a">>, <<"a">>, <<>>, 1),
      MainChange("added", <<"name:", "a">>, <<"a">>, <<>>, NoDate),
      MainChange("updated", <<"name:", "a">>, <<"a">>, <<"Reason">>, NoDate),
      MainChange("removed", <<"name:", "b">>, <<"b">>, <<>>, NoDate) }

\* CHANGELOG.md before a run: none, or what an earlier run left
MainDocs == {NoFile} \cup
            { gd_update_persistent_changelog(NoFile, <<c>>, d, d, <<>>) :
                c \in EarlierChanges, d \in Dates }

InitMain == /\ file \in MainDocs
            /\ last = NoCall
            /\ calls = MaxCalls - 1

Main ==
    /\ calls < MaxCalls
    /\ \E rows \in RowLists, git \in GitResults, today \in Dates, ord \in gd_SetOrders(file) :
         \E removed_order \in Orders(DOMAIN load_previous_data_from_git(git).dict) :
           LET run == main(file, rows, git, today, removed_order, ord) IN
             /\ file' = run.file
             /\ last' = [op |-> "main", rows |-> rows, git |-> git, today |-> today,
                         detection_date |-> today, changes |-> run.changes,
                         error |-> run.error, before |-> file]
    /\ calls' = calls + 1

NextMain == Main

SpecMain == InitMain /\ [][NextMain]_vars

----------------------------------------------------------------------------
(* A run of main() on a dataset that holds one substance twice: two rows with the
   same Name, which derive the same key, with the same or another Reason.  There
   is no CHANGELOG.md before the run and the run is the only one followed *)

SameKeyRows == { <<r, [r EXCEPT !.Reason = reason]>> : r \in Records, reason \in Reasons }

MainSameKey ==
    /\ calls < MaxCalls
    /\ \E rows \in SameKeyRows, git \in GitResults, today \in Dates, ord \in gd_SetOrders(file) :
         \E removed_order \in Orders(DOMAIN load_previous_data_from_git(git).dict) :
           LET step(run) ==
                 /\ file' = run.file
                 /\ last' = [op |-> "main", rows |-> rows, git |-> git, today |-> today,
                             detection_date |-> today, changes |-> run.changes,
                             error |-> run.error, before |-> file]
           IN  step(main(file, rows, git, today, removed_order, ord))
    /\ calls' = MaxCalls

NextSameKey == MainSameKey

SpecSameKey == Init /\ [][NextSameKey]_vars

----------------------------------------------------------------------------
(* workflow_helper.py: parse_changelog_counts *)

\* lines[:100]
CountWindow == 100

\* parse_changelog_counts without the limit of 100 lines
parse_changelog_counts_WholeFile(f) ==
    LET RECURSIVE CountAll(_, _, _)
        CountAll(lines, current_section, counts) ==
          IF lines = <<>> THEN counts
          ELSE LET l == Head(lines) IN
               IF l.k = "section"
                 THEN CountAll(Tail(lines), IF l.t \in ChangeType THEN l.t ELSE NoSection, counts)
               ELSE IF l.k = "date" THEN CountAll(Tail(lines), NoSection, counts)
               ELSE IF l.k = "bullet" /\ current_section # NoSection
                 THEN CountAll(Tail(lines), current_section,
                               [counts EXCEPT ![current_section] = @ + 1])
               ELSE CountAll(Tail(lines), current_section, counts)
    IN  IF ~f.exists THEN [added |-> 0, updated |-> 0, removed |-> 0]
        ELSE CountAll(f.lines, NoSection, [added |-> 0, updated |-> 0, removed |-> 0])

\* the loop over the lines: a '### ' line of a type sets current_section, any other
\* '### ' line and any '## ' line clears it, a '- **' line counts for current_section
RECURSIVE CountLines(_, _, _)
CountLines(lines, current_section, counts) ==
    IF lines = <<>> THEN counts
    ELSE LET l == Head(lines) IN
         IF l.k = "section"
           THEN CountLines(Tail(lines), IF l.t \in ChangeType THEN l.t ELSE NoSection, counts)
         ELSE IF l.k = "date" THEN CountLines(Tail(lines), NoSection, counts)
         ELSE IF l.k = "bullet" /\ current_section # NoSection
           THEN CountLines(Tail(lines), current_section,
                           [counts EXCEPT ![current_section] = @ + 1])
         ELSE CountLines(Tail(lines), current_section, counts)

\* (new_count, updated_count, removed_count)
parse_changelog_counts(f) ==
    IF ~f.exists THEN [added |-> 0, updated |-> 0, removed |-> 0]
    ELSE CountLines(FirstN(f.lines, CountWindow), NoSection,
                    [added |-> 0, updated |-> 0, removed |-> 0])

\* the lines that come before the counted blocks of a document
MaxPad == 100

\* CHANGELOG.md when parse_changelog_counts is called: none, or up to MaxPad lines of
\* text followed by date blocks with the section headers of the three types, another
\* section header or none
CountDocs ==
    LET pad(n) == [i \in 1..n |-> IF i % 2 = 1 THEN TextLine("# Changelog") ELSE BlankLine]
        blocks == { Block(1, sec, name) : sec \in ChangeType \cup {"other", "nosec"},
                                          name \in { <<"a">>, <<>> } }
        bodies == UNION { [1..n -> blocks] : n \in 0..MaxBlocks }
    IN  {NoFile} \cup { FileOf(pad(n) \o Flatten(b)) : n \in 0..MaxPad, b \in bodies }

InitCounts == /\ file \in CountDocs
              /\ last = NoCall
              /\ calls = 0

ParseCounts ==
    /\ calls = 0
    /\ last' = [op |-> "counts", counts |-> parse_changelog_counts(file)]
    /\ calls' = 1
    /\ UNCHANGED file

NextCounts == ParseCounts

SpecCounts == InitCounts /\ [][NextCounts]_vars

----------------------------------------------------------------------------
(* workflow_helper.py: check_for_changes.  staged is the outcome of
   "git diff --staged --quiet" after "git add -A": whether a file differs from the
   last commit *)

\* the file the run leaves and the outputs: has-changes, the kind of summary and the
\* counts the summary is made of
check_for_changes(f, rows, git, today, removed_order, ord, staged) ==
    LET zero == [added |-> 0, updated |-> 0, removed |-> 0]
        outputs(run, counts, total_changes) ==
          IF run.error # NoError
            THEN [run |-> run, has_changes |-> FALSE, summary |-> "none", counts |-> zero]
          ELSE IF ~staged
            THEN [run |-> run, has_changes |-> FALSE, summary |-> "no changes", counts |-> zero]
          ELSE IF total_changes = 0
            THEN [run |-> run, has_changes |-> FALSE, summary |-> "metadata only", counts |-> zero]
          ELSE [run |-> run, has_changes |-> TRUE, summary |-> "counts", counts |-> counts]
        counted(run, counts) ==
          outputs(run, counts, counts.added + counts.updated + counts.removed)
        generated(run) == counted(run, parse_changelog_counts(run.file))
    IN  generated(main(f, rows, git, today, removed_order, ord))

\* a changed CHANGELOG.md is staged; the other files of the run may differ or not
CheckForChanges ==
    /\ calls < MaxCalls
    /\ \E rows \in RowLists, git \in GitResults, today \in Dates, ord \in gd_SetOrders(file) :
         \E removed_order \in Orders(DOMAIN load_previous_data_from_git(git).dict) :
           \E staged \in BOOLEAN :
             LET step(out) ==
                   /\ out.run.file # file => staged
                   /\ file' = out.run.file
                   /\ last' = [op |-> "check", rows |-> rows, git |-> git, today |-> today,
                               detection_date |-> today, changes |-> out.run.changes,
                               error |-> out.run.error, before |-> file,
                               has_changes |-> out.has_changes, summary |-> out.summary,
                               counts |-> out.counts]
             IN  step(check_for_changes(file, rows, git, today, removed_order, ord, staged))
    /\ calls' = calls + 1

NextCheck == CheckForChanges

SpecCheck == InitMain /\ [][NextCheck]_vars

----------------------------------------------------------------------------
(* generate_docs.py: the key of a record as main() derives it from a row of the
   current dataset, and as load_previous_data_from_git derives it from the record
   that an earlier run wrote to docs/data.json, which holds the data columns and
   the system fields "added" and "updated" *)

KeyColumns == <<"guid", "Name", "searchable_name", "Reason", "Classifications">>

\* the chain guid, Name, searchable_name, two meaningful columns, first three
\* non-empty values among vals, last_resort
DeriveKey(item, vals, last_resort) ==
    LET guid == PyOr(Get(item, "guid"), Get(item, "Guid"))
        available_cols == SelectSeq(MeaningfulCols,
                              LAMBDA col : col \in DOMAIN item /\ Strip(Str(item[col])) # <<>>)
        non_empty_vals == SelectSeq(vals,
                              LAMBDA val : Truthy(val) /\ Strip(Str(val)) # <<>>
                                           /\ Str(val) \notin { <<"[", "]">>, <<"{", "}">>, <<"n", "a", "n">> })
        strs(vs) == [i \in 1..Len(vs) |-> Str(vs[i])]
    IN  IF Truthy(guid) /\ Strip(Str(guid)) # <<>> THEN <<"guid:">> \o Str(guid)
        ELSE IF Truthy(Get(item, "Name")) /\ Strip(Str(Get(item, "Name"))) # <<>>
          THEN <<"name:">> \o Str(Get(item, "Name"))
        ELSE IF Truthy(Get(item, "searchable_name")) /\ Strip(Str(Get(item, "searchable_name"))) # <<>>
          THEN <<"search:">> \o Str(Get(item, "searchable_name"))
        ELSE IF available_cols # <<>>
          THEN JoinBar([i \in 1..Len(FirstN(available_cols, 2)) |-> Str(item[available_cols[i]])])
        ELSE IF non_empty_vals # <<>> THEN JoinBar(strs(FirstN(non_empty_vals, 3)))
        ELSE last_resort

\* main(): the values are those of the columns of the dataset; the last resort is
\* the index of the row
CurrentKey(row) == DeriveKey(row, ValuesOf(row, KeyColumns), <<"row_", "0">>)

\* load_previous_data_from_git: the values are item.values(), the system fields
\* included; the last resort is str(hash(str(item)))
PreviousKey(item) ==
    DeriveKey(item, ValuesOf(item, KeyColumns \o <<"added", "updated">>), <<"hash">>)

\* the record of docs/data.json for a row: its columns, then "added" and "updated"
SnapshotOf(row) ==
    [col \in DOMAIN row \cup {"added", "updated"} |->
        IF col \in DOMAIN row THEN row[col] ELSE PyStr(<<"2026-01-01T00:00:00+00:00">>)]

DeriveKeys ==
    /\ calls = 0
    /\ \E row \in [ { KeyColumns[i] : i \in 1..Len(KeyColumns) }
                      -> { PyNone, PyStr(<<>>), PyStr(<<"x">>) } ] :
         last' = [op |-> "keys", row |-> row, current_key |-> CurrentKey(row),
                  previous_key |-> PreviousKey(SnapshotOf(row))]
    /\ calls' = 1
    /\ UNCHANGED file

NextKey == DeriveKeys

SpecKey == Init /\ [][NextKey]_vars

----------------------------------------------------------------------------
(* unii_client.py: UniiDataClient.download_zip.  In the runs of the client the
   variable file holds the cache directory: UNII_Data.zip, and the archive
   directory as a function from the time stamp in the file name to the bytes.
   The bytes of a file are the sequence of its chunks; the size is the length.
   The server is an input of each call: the body it serves, what it answers to
   the HEAD request, to the GET with "Range: bytes=0-0" and to the streamed GET
   of get_remote_file_size, and how far the download gets *)

MaxBytes == 2

Bytes == UNION { [1..n -> {"p", "q"}] : n \in 0..MaxBytes }

\* the size get_remote_file_size returns (known = FALSE for None) and the requests
\* it sends.  The GET with the Range header is sent without stream=True: when the
\* server answers 200 the whole body is read before the call returns
get_remote_file_size(server, remote) ==
    LET size(n) == [known |-> TRUE, size |-> n]
        none == [known |-> FALSE, size |-> 0]
        range_request == IF server.range = "200" THEN "GET Range: 200, body read"
                         ELSE "GET Range"
    IN  IF server.head = "error"
          THEN [size |-> none, requests |-> <<"HEAD">>]
        ELSE IF server.head = "content-length" /\ Len(remote) > 0
          THEN [size |-> size(Len(remote)), requests |-> <<"HEAD">>]
        ELSE IF server.range = "error"
          THEN [size |-> none, requests |-> <<"HEAD", range_request>>]
        ELSE IF server.range = "206 content-range"
          THEN [size |-> size(Len(remote)), requests |-> <<"HEAD", range_request>>]
        ELSE [size |-> IF server.stream = "content-length" /\ Len(remote) > 0
                         THEN size(Len(remote)) ELSE none,
              requests |-> <<"HEAD", range_request, "GET stream, headers read">>]

\* file_path.rename(archive_dir / f"{stem}_{timestamp}{suffix}")
archive_old_file(cache, timestamp) ==
    [zip |-> [exists |-> FALSE, bytes |-> <<>>],
     archive |-> [s \in DOMAIN cache.archive \cup {timestamp} |->
                    IF s = timestamp THEN cache.zip.bytes ELSE cache.archive[s]]]

\* the cache directory after download_zip(force_refresh), whether the call returned
\* zip_path or raised, the size it compared and the requests it sent.  refused:
\* session.get, raise_for_status or open(zip_path, 'wb') raises; chunks: the number
\* of chunks written before iter_content raises or ends
download_zip(cache, force_refresh, server, remote, refused, chunks, timestamp) ==
    LET probe == get_remote_file_size(server, remote)
        asked == cache.zip.exists /\ ~force_refresh
        remote_size == IF asked THEN probe.size ELSE [known |-> FALSE, size |-> 0]
        sent == IF asked THEN probe.requests ELSE <<>>
        result(c, r, reqs) == [cache |-> c, result |-> r, remote_size |-> remote_size,
                               requests |-> reqs]
        archived == IF asked THEN archive_old_file(cache, timestamp) ELSE cache
    IN  IF asked /\ (~remote_size.known \/ remote_size.size = Len(cache.zip.bytes))
          THEN result(cache, "returned", sent)
        ELSE IF refused
          THEN result(archived, "raised", sent \o <<"GET download">>)
        ELSE result([archived EXCEPT !.zip = [exists |-> TRUE, bytes |-> SubSeq(remote, 1, chunks)]],
                    IF chunks = Len(remote) THEN "returned" ELSE "raised",
                    sent \o <<"GET download">>)

InitUnii == /\ file = [zip |-> [exists |-> FALSE, bytes |-> <<>>], archive |-> <<>>]
            /\ last = NoCall
            /\ calls = 0

DownloadZip ==
    /\ calls < MaxCalls
    /\ \E force_refresh \in BOOLEAN, remote \in Bytes, timestamp \in 1..MaxCalls,
          head \in {"error", "no content-length", "content-length"},
          range \in {"error", "200", "206", "206 content-range"},
          stream \in {"error", "no content-length", "content-length"} :
         \E refused \in BOOLEAN, chunks \in 0..Len(remote) :
           LET step(out) ==
                 /\ file' = out.cache
                 /\ last' = [op |-> "download_zip", force_refresh |-> force_refresh,
                             result |-> out.result, remote_size |-> out.remote_size,
                             requests |-> out.requests, before |-> file]
           IN  /\ refused => chunks = 0
               /\ \A s \in DOMAIN file.archive : s <= timestamp
               /\ step(download_zip(file, force_refresh,
                                    [head |-> head, range |-> range, stream |-> stream],
                                    remote, refused, chunks, timestamp))
    /\ calls' = calls + 1

NextUnii == DownloadZip

SpecUnii == InitUnii /\ [][NextUnii]_vars

----------------------------------------------------------------------------
(* What the claims speak of *)

\* the last call was update_persistent_changelog
Updated == last.op = "update"

LinesOf(f) == IF f.exists THEN f.lines ELSE FreshLines

\* the entries the parser recovers from a file
Entries(f) == parse_existing_changelog_entries(LinesOf(f))

\* the name the parser recovers from the bullet that is rendered for a name
Clean(name) == Strip(RStripCh(Strip(name), ":"))

\* the bold text of the bullet rendered for a change
Bold(c) == IF c.type = "updated" THEN c.name \o <<":">> ELSE c.name

\* detection_date or today
Detection(l) == IF l.detection_date # NoDate THEN l.detection_date ELSE l.today

\* the date the code files a change under
FiledUnder(c, l) == IF c.type = "added" /\ c.source_date # NoDate THEN c.source_date
                    ELSE IF c.type \in {"removed", "updated"} THEN Detection(l)
                    ELSE l.today

\* the bullets of a document, each with the date and the section the parser is in
RECURSIVE BulletsAt(_, _, _)
BulletsAt(lines, current_date, current_section) ==
    IF lines = <<>> THEN <<>>
    ELSE LET l == Head(lines) IN
         IF l.k = "date" THEN BulletsAt(Tail(lines), l.d, current_section)
         ELSE IF l.k = "section"
           THEN BulletsAt(Tail(lines), current_date, IF l.t \in ChangeType THEN l.t ELSE NoSection)
         ELSE IF l.k = "bullet"
           THEN <<[date |-> current_date, type |-> current_section, bold |-> l.bold]>>
                \o BulletsAt(Tail(lines), current_date, current_section)
         ELSE BulletsAt(Tail(lines), current_date, current_section)

Bullets(f) == BulletsAt(LinesOf(f), NoDate, NoSection)

\* the number of bullets under (date, type) that the parser reads as the given name
CountFor(f, date, type, name) ==
    Cardinality({ i \in 1..Len(Bullets(f)) :
                    /\ Bullets(f)[i].date = date
                    /\ Bullets(f)[i].type = type
                    /\ Clean(Bullets(f)[i].bold) = name })

\* some bullet under (date, type) has exactly this bold text
HasBullet(f, date, type, bold) ==
    \E i \in 1..Len(Bullets(f)) :
        Bullets(f)[i] = [date |-> date, type |-> type, bold |-> bold]

\* the change was skipped as already recorded
Skipped(c, l) == has_substance(Entries(l.before), FiledUnder(c, l), c.type, c.name)

LastChanges == { last.changes[i] : i \in 1..Len(last.changes) }

----------------------------------------------------------------------------
(* Claims on changelog.update_persistent_changelog *)

\* C1: calling update_persistent_changelog again with the same changes, today and
\* detection_date on the document the first call left changes nothing
C1_MergeIdempotent ==
    Updated => \A ord \in SetOrders(file) :
        update_persistent_changelog(file, last.changes, last.today, last.detection_date, ord) = file

\* C2: a change whose bullet the document already holds once under its date and type
\* is skipped, and the document holds that bullet exactly once after the call
C2_GuardKeepsOne ==
    Updated => \A c \in LastChanges :
        (HasBullet(last.before, FiledUnder(c, last), c.type, Bold(c))
         /\ CountFor(last.before, FiledUnder(c, last), c.type, Clean(Bold(c))) = 1)
        => (Skipped(c, last)
            /\ CountFor(file, FiledUnder(c, last), c.type, Clean(Bold(c))) = 1)

\* C3: every (date, type, name) entry the parser recovers before a call is recovered
\* after it
C3_EntriesOnlyGrow == Updated => Entries(last.before) \subseteq Entries(file)

\* a bullet with this bold text under (date, type) was there before the last call,
\* as a line or as an entry the parser held, or another change of the call with the
\* same text belongs under that date
WasThere(date, type, c) ==
    \/ HasBullet(last.before, date, type, Bold(c))
    \/ has_substance(Entries(last.before), date, type, c.name)
    \/ \E c2 \in LastChanges \ {c} :
          c2.type = type /\ Bold(c2) = Bold(c) /\ FiledUnder(c2, last) = date

\* C6: an Added change with a source date is written under that date and under no
\* other, whatever the detection date; an Updated change is written under the
\* detection date and under no other, whatever source date it carries
C6_DateFiling ==
    Updated => \A c \in LastChanges :
        /\ (c.type = "added" /\ c.source_date # NoDate)
             => /\ Skipped(c, last) \/ HasBullet(file, c.source_date, "added", Bold(c))
                /\ \A d \in Dates \ {c.source_date} :
                      HasBullet(file, d, "added", Bold(c)) => WasThere(d, "added", c)
        /\ c.type = "updated"
             => /\ Skipped(c, last) \/ HasBullet(file, Detection(last), "updated", Bold(c))
                /\ \A d \in Dates \ {Detection(last)} :
                      HasBullet(file, d, "updated", Bold(c)) => WasThere(d, "updated", c)

\* C6 witness: an Added change with source date 1 was written under "## 1" by a call
\* whose today and detection date are 2
C6_Witness ==
    /\ Updated
    /\ last.today = 2 /\ Detection(last) = 2
    /\ \E c \in LastChanges :
          /\ c.type = "added" /\ c.source_date = 1
          /\ ~Skipped(c, last)
          /\ HasBullet(file, 1, "added", c.name)
          /\ ~HasBullet(file, 2, "added", c.name)

\* C7: every change other than an Added change with a source date is written under
\* the detection date, unless it is recorded there already
C7_OthersUnderDetection ==
    Updated => \A c \in LastChanges :
        ~(c.type = "added" /\ c.source_date # NoDate)
        => \/ has_substance(Entries(last.before), Detection(last), c.type, c.name)
           \/ HasBullet(file, Detection(last), c.type, Bold(c))

\* the (date, type, name) of the changes of the last call, each under its date
FiledEntries == { <<FiledUnder(c, last), c.type, c.name>> : c \in LastChanges }

\* C8: parsing what was rendered for a change list gives back exactly the
\* (date, type, name) of the changes
C8_RoundTrip ==
    (Updated /\ Entries(last.before) = {}) => Entries(file) = FiledEntries

----------------------------------------------------------------------------
(* Claims on generate_docs.main() and on the timestamp functions *)

\* the last step was a run of main()
Ran == last.op = "main"

\* the previous snapshot of the last run, by key
LastPrevious == PreviousDict(last.git.data, EmptyDict)

LastKey(i) == SubstanceKey(last.rows[i], <<"row_", ToString(i - 1)>>)

\* the last run emitted an Updated change for the key
EmittedUpdated(key) ==
    \E j \in 1..Len(last.changes) : last.changes[j].type = "updated" /\ last.changes[j].key = key

\* the last run emitted an Updated change for the key that lists the column
ListedField(key, col) ==
    \E j \in 1..Len(last.changes) :
        /\ last.changes[j].type = "updated" /\ last.changes[j].key = key
        /\ \E m \in 1..Len(last.changes[j].fields) : last.changes[j].fields[m] = col

\* get_substance_last_modified yields 0
Unresolvable(record) == gd_get_substance_last_modified(record) = PyInt(0)

\* C4: for a key of both the current dataset and the previous snapshot, no Updated
\* change is emitted when the current or the previous last-modified timestamp is
\* unresolvable
C4_ConservativeModification ==
    (Ran /\ last.git.outcome = "ok") => \A i \in 1..Len(last.rows) :
        (/\ LastKey(i) \in DOMAIN LastPrevious
         /\ Unresolvable(last.rows[i]) \/ Unresolvable(LastPrevious[LastKey(i)]))
        => ~EmittedUpdated(LastKey(i))

\* C5: a run whose previous snapshot is unavailable emits no change and leaves
\* CHANGELOG.md as it was, whatever the current dataset
C5_NoPreviousNoChanges ==
    (Ran /\ last.git.outcome \in GitFailures) => (last.changes = <<>> /\ file = last.before)

\* C5 witness: a run with a record in the current dataset and no previous snapshot
\* ended without exception, with a CHANGELOG.md of an earlier run in place
C5_Witness ==
    /\ Ran /\ last.git.outcome \in GitFailures
    /\ last.rows # <<>> /\ last.error = NoError
    /\ last.before.exists /\ file = last.before

\* None, "", "[]", "null"
NullLike == { PyNone, PyStr(<<>>), PyStr(<<"[", "]">>), PyStr(<<"n", "u", "l", "l">>) }

\* both timestamps are numbers
Resolvable(record) == gd_get_substance_last_modified(record).ty = "int"
                      /\ gd_get_substance_last_modified(record).n > 0

\* C9: a compared column whose previous and current values are both among None, "",
\* "[]" and "null" is not listed in the fields of an Updated change; stated for the
\* records whose timestamps are both resolvable
C9_NullLikeEqual ==
    (Ran /\ last.git.outcome = "ok") => \A i \in 1..Len(last.rows) :
        (/\ LastKey(i) \in DOMAIN LastPrevious
         /\ Resolvable(last.rows[i]) /\ Resolvable(LastPrevious[LastKey(i)]))
        => \A col \in {"Reason"} :
              (last.rows[i][col] \in NullLike /\ LastPrevious[LastKey(i)][col] \in NullLike)
              => ~ListedField(LastKey(i), col)

\* the records the last run read
LastRecords == { last.rows[i] : i \in 1..Len(last.rows) }
                \cup { last.git.data[i] : i \in 1..Len(last.git.data) }

\* the 'updated' field is missing, empty, no JSON, an object without '_seconds', or an
\* object whose '_seconds' is no number
BadUpdated(record) ==
    LET u == Get(record, "updated") IN
    \/ u.ty # "str" \/ Strip(u.s) = <<>>
    \/ json_loads(u.s).kind # "dict"
    \/ ~json_loads(u.s).has
    \/ json_loads(u.s).val.ty # "int"

\* C10: for a record with such an 'updated' field get_substance_last_modified is 0 and
\* has_substance_been_modified_since is false at every threshold, in changelog.py and
\* in generate_docs.py, and no run ends on a timestamp
C10_TimestampFallback ==
    Ran => /\ last.error # "TypeError"
           /\ \A record \in LastRecords : BadUpdated(record) =>
                 /\ get_substance_last_modified(record) = PyInt(0)
                 /\ gd_get_substance_last_modified(record) = PyInt(0)
                 /\ \A threshold \in {0, 100} :
                       /\ has_substance_been_modified_since(record, threshold) = "false"
                       /\ gd_has_substance_been_modified_since(record, threshold) = "false"

----------------------------------------------------------------------------
(* Claims on the document that changelog.update_persistent_changelog writes *)

\* the last call reached the write: some date was left with a new change
Wrote ==
    /\ Updated
    /\ DatesWithChanges(NewChangesByDate(Entries(last.before), last.changes,
                                         last.today, last.detection_date)) # {}

\* the dates of the date headers of a document, in document order
RECURSIVE DateHeaders(_)
DateHeaders(lines) == IF lines = <<>> THEN <<>>
                      ELSE (IF Head(lines).k = "date" THEN <<Head(lines).d>> ELSE <<>>)
                           \o DateHeaders(Tail(lines))

StrictlyDescending(ds) == \A i \in 1..(Len(ds) - 1) : ds[i] > ds[i + 1]

\* C11: after a write the date headers are strictly descending, so no date has two
\* headers, whatever the order and the repetitions of the headers before
C11_DatesDescending == Wrote => StrictlyDescending(DateHeaders(LinesOf(file)))

\* C11 witness: a write on a document whose headers were not strictly descending left
\* two headers
C11_Witness ==
    /\ Wrote
    /\ ~StrictlyDescending(DateHeaders(LinesOf(last.before)))
    /\ Len(DateHeaders(LinesOf(file))) >= 2

\* the lines from i on up to the next date header hold a bullet
RECURSIVE BulletBeforeNextDate(_, _)
BulletBeforeNextDate(lines, i) ==
    IF i > Len(lines) THEN FALSE
    ELSE IF lines[i].k = "date" THEN FALSE
    ELSE IF lines[i].k = "bullet" THEN TRUE
    ELSE BulletBeforeNextDate(lines, i + 1)

\* C12: after a write every date header is followed by a bullet before the next date
\* header or the end of the document
C12_NoEmptyBucket ==
    Wrote => \A i \in 1..Len(LinesOf(file)) :
                LinesOf(file)[i].k = "date" => BulletBeforeNextDate(LinesOf(file), i + 1)

\* C13: a call whose changes all have their bullet in the document already, under the
\* date and the type the call files them under (or whose change list is empty), leaves
\* the changelog file exactly as it was
C13_NoOpLeavesFile ==
    (Updated /\ \A c \in LastChanges :
                   HasBullet(last.before, FiledUnder(c, last), c.type, Bold(c)))
    => file = last.before

\* C14: after a failed write the changelog file holds the complete content the call
\* read or the complete content the call was writing
C14_NoPartialFile ==
    last.op = "write failed" =>
        \/ LinesOf(file) = LinesOf(last.before)
        \/ \E ord \in SetOrders(last.before) :
              file = update_persistent_changelog(last.before, last.changes, last.today,
                                                 last.detection_date, ord)

----------------------------------------------------------------------------
(* Claims on the changes that main() detects *)

\* the keys of the changes of one type that the last run detected
KeysOfType(type) ==
    { last.changes[j].key : j \in { i \in 1..Len(last.changes) : last.changes[i].type = type } }

\* the keys of the records the last run read
CurrentKeys == { LastKey(i) : i \in 1..Len(last.rows) }

\* the last run ended without an exception and had a previous snapshot
Compared == Ran /\ last.error = NoError /\ last.git.outcome = "ok"

\* C15: the Added changes are those of the current keys that the previous snapshot
\* lacks, the Removed changes those of the previous keys that the current records lack,
\* an Updated change has its key in both, and no key is in two of the three sets
C15_ClassifiedByKey ==
    Compared =>
        /\ KeysOfType("added") = CurrentKeys \ DOMAIN LastPrevious
        /\ KeysOfType("removed") = DOMAIN LastPrevious \ CurrentKeys
        /\ KeysOfType("updated") \subseteq CurrentKeys \cap DOMAIN LastPrevious
        /\ KeysOfType("added") \cap KeysOfType("removed") = {}
        /\ KeysOfType("added") \cap KeysOfType("updated") = {}
        /\ KeysOfType("updated") \cap KeysOfType("removed") = {}

\* C15 witness: a run that detected an Added and a Removed change
C15_Witness ==
    Compared /\ KeysOfType("added") # {} /\ KeysOfType("removed") # {}

\* the Updated changes among a list of changes
UpdatedAmong(changes) ==
    { changes[j] : j \in { i \in 1..Len(changes) : changes[i].type = "updated" } }

\* C16: every Updated change the run detected, and every one it passed to the
\* changelog, lists at least one field and no ignored field
C16_UpdatedFieldsMeaningful ==
    Ran => \A c \in UpdatedAmong(last.changes) \cup UpdatedAmong(MeaningfulChanges(last.changes)) :
              /\ c.fields # <<>>
              /\ \A i \in 1..Len(c.fields) : c.fields[i] \notin IgnoreFields

\* C16 witness: a run passed an Updated change to the changelog for a record whose
\* "updated" column differs from the previous one
C16_Witness ==
    /\ Compared
    /\ \E c \in UpdatedAmong(MeaningfulChanges(last.changes)) :
          \E i \in 1..Len(last.rows) :
             /\ LastKey(i) = c.key
             /\ Get(last.rows[i], "updated") # Get(LastPrevious[c.key], "updated")

----------------------------------------------------------------------------
(* Claims on the entries of successive runs *)

\* C17: when the document holds an entry of an earlier date for the type and the name
\* of a change of the call, the call adds no further entry for that type and name:
\* the number of bullets of that type, under any date, that read as the name stays
C17_NoDuplicateAcrossRuns ==
    LET TotalFor(f, type, name) ==
          Cardinality({ i \in 1..Len(Bullets(f)) :
                          Bullets(f)[i].type = type /\ Clean(Bullets(f)[i].bold) = name })
    IN  Updated => \A c \in LastChanges : \A d \in Dates :
            (d < Detection(last) /\ has_substance(Entries(last.before), d, c.type, c.name))
            => TotalFor(file, c.type, c.name) = TotalFor(last.before, c.type, c.name)

----------------------------------------------------------------------------
(* Claims on workflow_helper.py *)

C19_CountsOfThisRun ==
    LET passed == MeaningfulChanges(last.changes)
        recorded == gd_parse_existing_changelog_entries(LinesOf(last.before)).entries
        newly(type) == Cardinality({ j \in 1..Len(passed) :
                           /\ passed[j].type = type
                           /\ ~has_substance(recorded, FiledUnder(passed[j], last), type,
                                              passed[j].name) })
    IN  (last.op = "check" /\ last.summary \in {"counts", "no changes"})
        => \A type \in ChangeType : last.counts[type] = newly(type)

----------------------------------------------------------------------------
(* Claims on the date sections that a write keeps *)

\* C20: every date that has a header line in the document before a write has a
\* header line in the document after it
C20_DateSectionsKept ==
    Wrote => \A i \in 1..Len(DateHeaders(LinesOf(last.before))) :
                \E j \in 1..Len(DateHeaders(LinesOf(file))) :
                   DateHeaders(LinesOf(file))[j] = DateHeaders(LinesOf(last.before))[i]

----------------------------------------------------------------------------
(* Claims on the sections that a write copies *)

\* C21: for a date that has a section before a write and gets no new change in it, the
\* lines under the date's header after the write are the lines under it before
C21_CopiedVerbatim ==
    LET before == LinesOf(last.before)
        new == NewChangesByDate(Entries(last.before), last.changes, last.today,
                                last.detection_date)
    IN  Wrote => \A d \in Dates :
            ((\E i \in 1..Len(before) : before[i] = DateLine(d)) /\ ~has_changes(new[d]))
            => /\ \E i \in 1..Len(LinesOf(file)) : LinesOf(file)[i] = DateLine(d)
               /\ extract_existing_date_content(LinesOf(file), d)
                    = extract_existing_date_content(before, d)

----------------------------------------------------------------------------
(* Claims on the file accesses of a call *)

\* C22: a call opens CHANGELOG.md at most once for reading and at most once for
\* writing, also when the file does not exist before the call
C22_OneReadOneWrite ==
    LET opens == FileOpens(last.before, last.changes, last.today, last.detection_date)
    IN  Updated => /\ Cardinality({ i \in 1..Len(opens) : opens[i] = "r" }) <= 1
                   /\ Cardinality({ i \in 1..Len(opens) : opens[i] = "w" }) <= 1

----------------------------------------------------------------------------
(* Claims on the identity key *)

\* C23: the key derived for a row of the current dataset equals the key derived for
\* the record of the previous snapshot that holds the same field values
C23_SameKeyBothSides == last.op = "keys" => last.current_key = last.previous_key

----------------------------------------------------------------------------
(* Claims on the parsers *)

\* C24: both parsers record a name under a type only for a bullet whose nearest
\* '###' header before it is the header of that type, so a bullet after a header of no
\* known type is recorded under no type; and the lines that are neither date header,
\* section header nor bullet change nothing of what is parsed
C24_UnknownSectionResets ==
    LET lines == LinesOf(file)
        sections(k) == { j \in 1..(k - 1) : lines[j].k = "section" }
        section(k) == CHOOSE j \in sections(k) : \A i \in sections(k) : i <= j
        filed(k, type) == /\ lines[k].k = "bullet"
                          /\ sections(k) # {}
                          /\ lines[section(k)].t = type
        structural == SelectSeq(lines, LAMBDA l : l.k \in {"date", "section", "bullet"})
        justified(entries) ==
            \A e \in entries : \E k \in 1..Len(lines) :
                filed(k, e[2]) /\ Clean(lines[k].bold) = e[3]
    IN  /\ justified(parse_existing_changelog_entries(lines))
        /\ justified(gd_parse_existing_changelog_entries(lines).entries)
        /\ parse_existing_changelog_entries(structural) = parse_existing_changelog_entries(lines)
        /\ gd_parse_existing_changelog_entries(structural)
             = gd_parse_existing_changelog_entries(lines)

\* C24 witness: a document with a header of a known type, after it a header of no known
\* type, and after that a named bullet that the parser did not record under the type
C24_Witness ==
    LET lines == LinesOf(file) IN
    \E i, j, k \in 1..Len(lines) :
        /\ i < j /\ j < k
        /\ lines[i].k = "section" /\ lines[i].t \in ChangeType
        /\ lines[j].k = "section" /\ lines[j].t \notin ChangeType
        /\ \A m \in (j + 1)..(k - 1) : lines[m].k # "section"
        /\ lines[k].k = "bullet" /\ Clean(lines[k].bold) # <<>>
        /\ \E m \in 1..(i - 1) : lines[m].k = "date"
        /\ \A d \in Dates : ~has_substance(Entries(file), d, lines[i].t, Clean(lines[k].bold))

\* C25: the parser records a name under a type and a date only for a bullet that has
\* a section header of that type between its own date header and itself
C25_SectionWithinDate ==
    LET lines == LinesOf(file)
        dates(k) == { j \in 1..(k - 1) : lines[j].k = "date" }
        date(k) == CHOOSE j \in dates(k) : \A i \in dates(k) : i <= j
    IN  \A e \in Entries(file) : \E k \in 1..Len(lines) :
            /\ lines[k].k = "bullet" /\ Clean(lines[k].bold) = e[3]
            /\ dates(k) # {} /\ lines[date(k)].d = e[1]
            /\ \E j \in (date(k) + 1)..(k - 1) : lines[j].k = "section" /\ lines[j].t = e[2]

\* C26: in the document a call of update_persistent_changelog leaves, no two bullets
\* under one date and one type carry the same name, also when the list of the call
\* carries the same change twice
C26_OneBulletPerTriple ==
    Updated =>
      \A date \in Dates, type \in ChangeType, i, j \in 1..Len(Bullets(file)) :
          /\ Bullets(file)[i].date = date /\ Bullets(file)[j].date = date
          /\ Bullets(file)[i].type = type /\ Bullets(file)[j].type = type
          /\ Bullets(file)[i].bold = Bullets(file)[j].bold
          => i = j

\* C27: a run of main() emits at most one change for a key, also when two rows of
\* the current data derive the same key
C27_OneChangePerKey ==
    Ran => \A i, j \in 1..Len(last.changes) :
              last.changes[i].key = last.changes[j].key => i = j

\* C28: after a run of main() that wrote CHANGELOG.md, the lines of text before the
\* first date header are those written at creation, each once, and no date header
\* stands in the document twice
C28_HeaderFixed ==
    LET lines == LinesOf(file)
        first == CHOOSE n \in 1..(Len(lines) + 1) :
                    /\ n <= Len(lines) => lines[n].k = "date"
                    /\ \A j \in 1..(n - 1) : lines[j].k # "date"
        written(ls) == SelectSeq(ls, LAMBDA l : ~IsBlank(l))
        dates == SelectSeq(lines, LAMBDA l : l.k = "date")
    IN  Ran /\ last.error = NoError /\ file # last.before =>
          /\ written(SubSeq(lines, 1, first - 1)) = written(FreshLines)
          /\ \A i, j \in 1..Len(dates) : dates[i].d = dates[j].d => i = j

(* Claims on unii_client.download_zip *)

\* C29: download_zip reads a response body of the file only when there is no cached
\* UNII_Data.zip, force_refresh is true, or the remote size is known and differs
\* from the size of the cached file; in every other call it returns the cached path
\* and leaves the cached file and the archive directory as they were
C29_BodyOnlyWhenNeeded ==
    LET cached == last.before.zip
        needed == \/ ~cached.exists
                  \/ last.force_refresh
                  \/ last.remote_size.known /\ last.remote_size.size # Len(cached.bytes)
        body == { "GET Range: 200, body read", "GET download" }
    IN  last.op = "download_zip" =>
          /\ (\E i \in 1..Len(last.requests) : last.requests[i] \in body) => needed
          /\ ~needed => last.result = "returned" /\ file = last.before

\* C30: after a call of download_zip that found a cached UNII_Data.zip, the bytes of
\* that file are at the cache path or in the archive directory
C30_CachedNeverLost ==
    last.op = "download_zip" /\ last.before.zip.exists =>
        \/ file.zip.exists /\ file.zip.bytes = last.before.zip.bytes
        \/ \E s \in DOMAIN file.archive : file.archive[s] = last.before.zip.bytes

====
